---- MODULE Spec2Model ----
(***************************************************************************)
(* A model of kbrault/spaceDB: the pagination planner of build_site.py and *)
(* utils.py, the relative base-url computation of build_site.py, and the   *)
(* sequential site build of build_site.py's main block.                    *)
(***************************************************************************)
EXTENDS Integers, Sequences, FiniteSets, TLC

\* ------------------------------------------------------------------ bounds

\* Largest total page count given to the planner on its own.
MaxTotal == 50
\* Largest neighbourhood radius given to the planner on its own.
MaxDelta == 4
\* Largest number of rockets in a catalog.
MaxRockets == 3
\* Largest number of variants of one rocket.
MaxVariants == 30

\* ----------------------------------------------------------- configuration

\* CONFIG["ITEMS_PER_PAGE"]
ITEMS_PER_PAGE == 30

\* The default delta of build_site.get_pagination_range.
DEFAULT_DELTA == 3

\* --------------------------------------------------------------- variables

VARIABLES
    current,        \* planner input: the current page
    total,          \* planner input: the number of pages
    delta,          \* planner input: the neighbourhood radius
    plan_pc,        \* "idle" before the planners ran, then "build_site", then "both"
    pages,          \* result of build_site.get_pagination_range
    range_pages,    \* result of utils.get_pagination_range
    pc,             \* the position of build_site's main block
    files,          \* which input files exist: [pages, rockets, schema -> BOOLEAN]
    disk_rockets,   \* the content of data/rockets.json
    assets_copied,  \* whether output_site/assets holds the copied assets
    pages_data,     \* main's pages_data
    rockets_data,   \* main's rockets_data
    errors,         \* the files load_json logged as not found, in order
    validation,     \* "pending", "ok", "failed" (ValidationError) or "crashed"
    exit_status,    \* << >> while the process runs, then << status >>
    totals,         \* main's total_rockets and total_variants
    broken,         \* the templates whose loading or rendering raises
    written,        \* the files render_template wrote, in order
    render_errors,  \* the render_template calls that logged a failure, in order
    rows,           \* the flattened rows of generate_rockets_listing
    listing,        \* the context of every listing page, in order
    planner_calls   \* the arguments of every get_pagination_range call, in order

plan_vars == <<current, total, delta, plan_pc, pages, range_pages>>

build_vars == <<pc, files, disk_rockets, assets_copied, pages_data, rockets_data,
                errors, validation, exit_status, totals, broken, written,
                render_errors, rows, listing, planner_calls>>

vars == <<plan_vars, build_vars>>

\* ------------------------------------------------------ pagination markers

\* A page number in a pagination sequence (an int of the Python list).
Num(n) == [kind |-> "page", n |-> n]

\* The ellipsis marker "..." of a pagination sequence.
Ellipsis == [kind |-> "ellipsis", n |-> 0]

\* list(range(a, b + 1)): the page numbers a..b, empty when a > b.
Range(a, b) == [i \in 1..(b - a + 1) |-> Num(a + i - 1)]

Max(a, b) == IF a >= b THEN a ELSE b

Min(a, b) == IF a <= b THEN a ELSE b

\* ------------------------------------- build_site.get_pagination_range

\* A window that may reach down to page 1, the leading anchor.
PlanStartFromOne(cur, d) == Max(1, cur - d)

\* start = max(2, current - delta)
PlanStart(cur, d) == Max(2, cur - d)

\* end = min(total - 1, current + delta)
PlanEnd(cur, tot, d) == Min(tot - 1, cur + d)

\* pages = [1, "..."] if start > 2 else [1]
PlanHead(start) == IF start > 2 THEN <<Num(1), Ellipsis>> ELSE << Num(1) >>

\* A window that stops one page short (range(start, end)).
PlanMiddleExclusive(start, end) == Range(start, end - 1)

\* pages.extend(range(start, end + 1))
PlanMiddle(start, end) == Range(start, end)

\* A trailing anchor that leaves the last page out when the window touches it.
PlanTailDropsLast(end, tot) ==
    IF end < tot - 1 THEN <<Ellipsis, Num(tot)>> ELSE << >>

\* A trailing anchor that shows an ellipsis only when two or more pages are elided.
PlanTailCollapsesGap(end, tot) ==
    IF end < tot - 2 THEN <<Ellipsis, Num(tot)>>
    ELSE IF end < tot - 1 THEN <<Num(tot - 1), Num(tot)>>
    ELSE IF end < tot THEN << Num(tot) >>
    ELSE << >>

\* pages.extend(["...", total]) if end < total - 1
\*     else pages.append(total) if end < total else None
PlanTail(end, tot) ==
    IF end < tot - 1 THEN <<Ellipsis, Num(tot)>>
    ELSE IF end < tot THEN << Num(tot) >>
    ELSE << >>

\* build_site.get_pagination_range(current, total, delta)
get_pagination_range(cur, tot, d) ==
    IF tot <= 1 THEN << Num(1) >>
    ELSE LET start == PlanStart(cur, d)
             end == PlanEnd(cur, tot, d)
         IN  PlanHead(start) \o PlanMiddle(start, end) \o PlanTail(end, tot)

\* ------------------------------------------ utils.get_pagination_range

\* The leading part of utils.get_pagination_range: the markers appended
\* before the range, and the range's first page.
UtilsHead(cur, d) ==
    IF cur - d > 2 THEN [pre |-> <<Num(1), Ellipsis>>, start |-> cur - d]
    ELSE [pre |-> << >>, start |-> 1]

\* A range end that compares with the last page instead of the one before it.
UtilsEndOffByOne(cur, tot, d) == IF cur + d < tot THEN cur + d ELSE tot

\* The last page of the range of utils.get_pagination_range.
UtilsEnd(cur, tot, d) == IF cur + d < tot - 1 THEN cur + d ELSE tot

\* utils.get_pagination_range(current_page, total_pages, delta)
utils_get_pagination_range(cur, tot, d) ==
    LET head == UtilsHead(cur, d)
        end == UtilsEnd(cur, tot, d)
    IN  head.pre \o Range(head.start, end)
        \o (IF end < tot THEN <<Ellipsis, Num(tot)>> ELSE << >>)


\* ------------------------------------------------------------------- paths

\* A path is the sequence of its components. A component is a fixed name, a
\* slug (a positive number standing for a slug string) or a page number,
\* with the extension of a file name.
Comp(name, id, ext) == [name |-> name, id |-> id, ext |-> ext]

\* The component "..".
ParentDir == Comp("..", 0, "")

\* CONFIG["OUTPUT_DIR"] = Path("output_site")
OUTPUT_DIR == << Comp("output_site", 0, "") >>

\* "index.html"
IndexFile == Comp("index", 0, "html")

\* str.lower() on the titles of CONFIG.
Lower(s) == CASE s = "Rockets" -> "rockets" [] OTHER -> s

\* CONFIG["ROCKET_LIST_TITLE"]
ROCKET_LIST_TITLE == "Rockets"

\* Path.__truediv__ with a relative right-hand side.
PathJoin(base, rel) == base \o rel

\* Path.relative_to(base): the rest of the path, or ValueError when base is
\* no prefix of it.
RelativeTo(path, base) ==
    IF Len(base) <= Len(path) /\ SubSeq(path, 1, Len(base)) = base
    THEN [ok |-> TRUE, rel |-> SubSeq(path, Len(base) + 1, Len(path))]
    ELSE [ok |-> FALSE, rel |-> << >>]

\* Path.parents of a relative path: its proper prefixes, longest first,
\* down to the empty path '.'.
Parents(rel) == [i \in 1..Len(rel) |-> SubSeq(rel, 1, Len(rel) - i)]

\* "../" * depth
Repeat(depth) == [i \in 1..depth |-> ParentDir]

\* A depth that counts the file name as a level.
DepthCountsFile(rel) == Len(Parents(rel))

\* depth = len(rel_path.parents) - 1
Depth(rel) == Len(Parents(rel)) - 1

\* build_site.compute_base_url(output_path)
compute_base_url(output_path) ==
    LET r == RelativeTo(output_path, OUTPUT_DIR)
    IN  IF r.ok
        THEN (IF Depth(r.rel) > 0 THEN Repeat(Depth(r.rel)) ELSE << >>)
        ELSE << >>

\* A call of render_template for a template and a relative output path: the
\* output path, and base_url and home_link of the global context.
Rendered(template_name, output_rel_path) ==
    LET output_path == PathJoin(OUTPUT_DIR, output_rel_path)
        base_url == compute_base_url(output_path)
    IN  [template |-> template_name,
         path |-> output_path,
         base_url |-> base_url,
         home_link |-> base_url \o << IndexFile >>]

\* The templates of the site.
Templates == {"index.html", "about.html", "rockets.html", "rocket.html",
              "variant.html"}

\* The try block of render_template: the calls whose template loads and
\* renders, which write their file.
WrittenOf(calls, bad) == SelectSeq(calls, LAMBDA c : c.template \notin bad)

\* The except branch of render_template: the calls whose template raises,
\* which log the failure and write nothing.
FailedOf(calls, bad) == SelectSeq(calls, LAMBDA c : c.template \in bad)

\* ----------------------------------------------------------------- catalog

\* The names of the catalog's rockets, in catalog order.
RocketNames == <<"Zenit", "atlas", "Ariane", "Atlas", "Soyuz">>

\* The rank of name.lower() in string order, for the names of the model
\* ("" is the default of r.get("name", "")).
LowerRank(name) ==
    CASE name = "" -> 0
      [] name = "Ariane" -> 1
      [] name = "atlas" -> 2
      [] name = "Atlas" -> 2
      [] name = "Soyuz" -> 3
      [] name = "Zenit" -> 4

\* A catalog of nR rockets with nV variants each. Slug 0 stands for a
\* missing or empty slug: rocket badR has none, and neither has variant
\* badV of the first rocket.
Catalog(nR, nV, badR, badV) ==
    [i \in 1..nR |->
        [slug |-> IF i = badR THEN 0 ELSE i,
         name |-> RocketNames[i],
         variants |-> [j \in 1..nV |->
                          [slug |-> IF i = 1 /\ j = badV THEN 0 ELSE j]]]]

\* The pages manifest data/pages.json.
PagesManifest == <<"rockets", "about">>

\* ------------------------------------------------------------- main: load

\* load_json(file_path): the content, or [] after logging the file as not
\* found.
load_json(exists, content) == IF exists THEN content ELSE << >>

\* load_json's log: the file is appended when it was not found.
LogNotFound(log, exists, name) == IF exists THEN log ELSE Append(log, name)

\* rockets_data.sort(key=lambda r: r.get("name", "").lower()): a stable
\* sort, as the insertion of each rocket after the ones whose key is not
\* greater.
RECURSIVE SortByName(_)
SortByName(rs) ==
    IF rs = << >> THEN << >>
    ELSE LET init == SortByName(SubSeq(rs, 1, Len(rs) - 1))
             r == rs[Len(rs)]
             k == Cardinality({i \in 1..Len(init) :
                                  LowerRank(init[i].name) <= LowerRank(r.name)})
         IN  SubSeq(init, 1, k) \o << r >> \o SubSeq(init, k + 1, Len(init))

\* sum(len(r.get("variants", [])) for r in rockets_data)
RECURSIVE SumVariants(_)
SumVariants(rs) ==
    IF rs = << >> THEN 0
    ELSE Len(rs[1].variants) + SumVariants(Tail(rs))

\* ------------------------------------------------ generate_rockets_listing

\* The variants of a rocket that have a slug, as rows.
VariantRows(rocket) ==
    LET keep == SelectSeq(rocket.variants, LAMBDA v : v.slug # 0)
    IN  [j \in 1..Len(keep) |->
            [type |-> "variant", data |-> keep[j].slug, root |-> rocket.slug]]

\* rows: every rocket with a slug, followed by its variants with a slug (a
\* rocket row has no root; 0 stands for the absent key).
RECURSIVE FlattenRows(_)
FlattenRows(rockets) ==
    IF rockets = << >> THEN << >>
    ELSE LET r == rockets[1]
         IN  (IF r.slug # 0
              THEN << [type |-> "rocket", data |-> r.slug, root |-> 0] >>
                   \o VariantRows(r)
              ELSE << >>)
             \o FlattenRows(Tail(rockets))

\* total_pages = math.ceil(len(rows) / CONFIG["ITEMS_PER_PAGE"])
TotalPages(n) ==
    IF n % ITEMS_PER_PAGE = 0 THEN n \div ITEMS_PER_PAGE
    ELSE n \div ITEMS_PER_PAGE + 1

\* A slice start that skips the first page's rows.
PageStartSkipsFirst(page_num) == page_num * ITEMS_PER_PAGE

\* start = (page_num - 1) * CONFIG["ITEMS_PER_PAGE"]
PageStart(page_num) == (page_num - 1) * ITEMS_PER_PAGE

\* A bound of a Python slice as a position 0..len(s): a negative bound counts
\* from the end, and a bound outside the list is clamped.
SliceBound(n, b) == IF b < 0 THEN Max(0, n + b) ELSE Min(b, n)

\* s[start : stop] of a Python list.
Slice(s, start, stop) ==
    LET lo == SliceBound(Len(s), start)
        hi == SliceBound(Len(s), stop)
    IN  IF lo < hi THEN SubSeq(s, lo + 1, hi) ELSE << >>

\* rows[start : start + CONFIG["ITEMS_PER_PAGE"]]
PageRows(rs, page_num) ==
    LET start == PageStart(page_num)
    IN  Slice(rs, start, start + ITEMS_PER_PAGE)

\* The file name of a listing page: "rockets.html" for page 1, else
\* "rockets_page_<page_num>.html" (id 0 stands for no page suffix).
ListingFile(page_num) ==
    IF page_num = 1 THEN Comp(Lower(ROCKET_LIST_TITLE), 0, "html")
    ELSE Comp(Lower(ROCKET_LIST_TITLE), page_num, "html")

\* A loop that starts at page 0 (range(total_pages + 1)).
ListingPageNumbersFromZero(total_pages) == [p \in 1..(total_pages + 1) |-> p - 1]

\* range(1, total_pages + 1)
ListingPageNumbers(total_pages) == [p \in 1..total_pages |-> p]

\* The context of the listing pages, one per pass of the loop.
ListingPages(rs) ==
    LET total_pages == TotalPages(Len(rs))
        nums == ListingPageNumbers(total_pages)
    IN  [k \in 1..Len(nums) |->
            [current_page |-> nums[k],
             total_pages |-> total_pages,
             rockets_page |-> PageRows(rs, nums[k]),
             pagination |-> get_pagination_range(nums[k], total_pages, DEFAULT_DELTA),
             filename |-> ListingFile(nums[k])]]

\* ------------------------------------- generate_rocket_and_variant_details

\* The detail pages of one rocket: its own, then one per variant with a slug.
RocketDetails(rocket) ==
    LET keep == SelectSeq(rocket.variants, LAMBDA v : v.slug # 0)
    IN  << Rendered("rocket.html",
                    <<Comp("rocket", 0, ""), Comp("", rocket.slug, "html")>>) >>
        \o [j \in 1..Len(keep) |->
               Rendered("variant.html",
                        <<Comp("rocket", 0, ""), Comp("", rocket.slug, ""),
                          Comp("", keep[j].slug, "html")>>)]

\* The detail pages of the catalog, rockets without a slug skipped.
RECURSIVE DetailPages(_)
DetailPages(rockets) ==
    IF rockets = << >> THEN << >>
    ELSE (IF rockets[1].slug # 0 THEN RocketDetails(rockets[1]) ELSE << >>)
         \o DetailPages(Tail(rockets))

\* --------------------------------------------------------- initial build

\* The state of the build before it starts, for given input files.
BuildIdle(fs, catalog, bad) ==
    /\ pc = "start"
    /\ files = fs
    /\ disk_rockets = catalog
    /\ assets_copied = FALSE
    /\ pages_data = << >>
    /\ rockets_data = << >>
    /\ errors = << >>
    /\ validation = "pending"
    /\ exit_status = << >>
    /\ totals = [rockets |-> 0, variants |-> 0]
    /\ broken = bad
    /\ written = << >>
    /\ render_errors = << >>
    /\ rows = << >>
    /\ listing = << >>
    /\ planner_calls = << >>

\* ------------------------------------------- the planner on its own

\* Any call within the planner's preconditions.
PlanInit ==
    /\ total \in 1..MaxTotal
    /\ current \in 1..total
    /\ delta \in 0..MaxDelta
    /\ plan_pc = "idle"
    /\ pages = << >>
    /\ range_pages = << >>
    /\ BuildIdle([pages |-> TRUE, rockets |-> TRUE, schema |-> TRUE], << >>, {})

\* The call of build_site.get_pagination_range.
CallBuildSite ==
    /\ plan_pc = "idle"
    /\ pages' = get_pagination_range(current, total, delta)
    /\ plan_pc' = "build_site"
    /\ UNCHANGED <<current, total, delta, range_pages>>
    /\ UNCHANGED build_vars

\* The call of utils.get_pagination_range on the same arguments.
CallUtils ==
    /\ plan_pc = "build_site"
    /\ range_pages' = utils_get_pagination_range(current, total, delta)
    /\ plan_pc' = "both"
    /\ UNCHANGED <<current, total, delta, pages>>
    /\ UNCHANGED build_vars

PlanNext == CallBuildSite \/ CallUtils

Spec == PlanInit /\ [][PlanNext]_vars

\* ------------------------------------------------- build_site's main block

\* The catalogs data/rockets.json may hold.
Catalogs ==
    {Catalog(nR, nV, badR, badV) :
        nR \in 0..MaxRockets, nV \in 0..MaxVariants,
        badR \in 0..MaxRockets, badV \in 0..1}

\* The sets of failing templates of a run: none, or one of them.
BrokenTemplates == {{}} \cup {{t} : t \in Templates}

\* A build of any catalog, with any of the input files missing (a missing
\* catalog file has no content) and with any one template failing.
BuildInit ==
    /\ current = 1 /\ total = 1 /\ delta = 0
    /\ plan_pc = "idle" /\ pages = << >> /\ range_pages = << >>
    /\ \E fs \in [{"pages", "rockets", "schema"} -> BOOLEAN] :
       \E catalog \in Catalogs :
       \E bad \in BrokenTemplates :
          /\ (~fs.rockets => catalog = << >>)
          /\ BuildIdle(fs, catalog, bad)

\* cleanup_and_setup: the output directory is emptied and the assets are
\* copied when the assets directory exists.
CleanupAndSetup ==
    /\ pc = "start"
    /\ \E assets_exist \in BOOLEAN : assets_copied' = assets_exist
    /\ written' = << >>
    /\ pc' = "load_pages"
    /\ UNCHANGED <<files, disk_rockets, pages_data, rockets_data, errors,
                   validation, exit_status, totals, broken, render_errors, rows,
                   listing, planner_calls>>
    /\ UNCHANGED plan_vars

\* pages_data = load_json(CONFIG["PAGES_FILE"])
LoadPages ==
    /\ pc = "load_pages"
    /\ pages_data' = load_json(files.pages, PagesManifest)
    /\ errors' = LogNotFound(errors, files.pages, "pages")
    /\ pc' = "load_rockets"
    /\ UNCHANGED <<files, disk_rockets, assets_copied, rockets_data, validation,
                   exit_status, totals, broken, written, render_errors, rows,
                   listing, planner_calls>>
    /\ UNCHANGED plan_vars

\* rockets_data = load_json(CONFIG["ROCKETS_FILE"])
LoadRockets ==
    /\ pc = "load_rockets"
    /\ rockets_data' = load_json(files.rockets, disk_rockets)
    /\ errors' = LogNotFound(errors, files.rockets, "rockets")
    /\ pc' = "validate"
    /\ UNCHANGED <<files, disk_rockets, assets_copied, pages_data, validation,
                   exit_status, totals, broken, written, render_errors, rows,
                   listing, planner_calls>>
    /\ UNCHANGED plan_vars

\* An except branch that logs the failure and goes on.
OnValidationErrorGoesOn == [pc |-> "sort", exit_status |-> << >>]

\* except (ValidationError, FileNotFoundError): logger.error(...); exit(1)
OnValidationError == [pc |-> "exited", exit_status |-> << 1 >>]

\* The outcomes of jsonschema's validate: with a schema document the catalog
\* passes or fails with ValidationError; the [] that load_json returns for a
\* missing schema file is no schema, and validate raises SchemaError.
ValidateOutcomes(schema_exists) ==
    IF schema_exists THEN {"ok", "ValidationError"} ELSE {"SchemaError"}

\* validate(instance=rockets_data, schema=load_json(CONFIG["ROCKETS_SCHEMA_FILE"]))
\* in its try block. SchemaError is not caught: the process dies with a
\* traceback and status 1.
Validate ==
    /\ pc = "validate"
    /\ errors' = LogNotFound(errors, files.schema, "schema")
    /\ \E outcome \in ValidateOutcomes(files.schema) :
          \/ /\ outcome = "ok"
             /\ validation' = "ok"
             /\ pc' = "sort"
             /\ exit_status' = exit_status
          \/ /\ outcome = "ValidationError"
             /\ validation' = "failed"
             /\ pc' = OnValidationError.pc
             /\ exit_status' = OnValidationError.exit_status
          \/ /\ outcome = "SchemaError"
             /\ validation' = "crashed"
             /\ pc' = "crashed"
             /\ exit_status' = << 1 >>
    /\ UNCHANGED <<files, disk_rockets, assets_copied, pages_data, rockets_data,
                   totals, broken, written, render_errors, rows, listing,
                   planner_calls>>
    /\ UNCHANGED plan_vars

\* rockets_data.sort(...), total_rockets and total_variants.
SortAndCount ==
    /\ pc = "sort"
    /\ rockets_data' = SortByName(rockets_data)
    /\ totals' = [rockets |-> Len(rockets_data),
                  variants |-> SumVariants(rockets_data)]
    /\ pc' = "index"
    /\ UNCHANGED <<files, disk_rockets, assets_copied, pages_data, errors,
                   validation, exit_status, broken, written, render_errors, rows,
                   listing, planner_calls>>
    /\ UNCHANGED plan_vars

\* generate_index
GenerateIndex ==
    /\ pc = "index"
    /\ LET calls == << Rendered("index.html", << IndexFile >>) >>
       IN  /\ written' = written \o WrittenOf(calls, broken)
           /\ render_errors' = render_errors \o FailedOf(calls, broken)
    /\ pc' = "about"
    /\ UNCHANGED <<files, disk_rockets, assets_copied, pages_data, rockets_data,
                   errors, validation, exit_status, totals, broken, rows, listing,
                   planner_calls>>
    /\ UNCHANGED plan_vars

\* generate_about_page
GenerateAbout ==
    /\ pc = "about"
    /\ LET calls == << Rendered("about.html", << Comp("about", 0, "html") >>) >>
       IN  /\ written' = written \o WrittenOf(calls, broken)
           /\ render_errors' = render_errors \o FailedOf(calls, broken)
    /\ pc' = "listing"
    /\ UNCHANGED <<files, disk_rockets, assets_copied, pages_data, rockets_data,
                   errors, validation, exit_status, totals, broken, rows, listing,
                   planner_calls>>
    /\ UNCHANGED plan_vars

\* generate_rockets_listing
GenerateRocketsListing ==
    /\ pc = "listing"
    /\ rows' = FlattenRows(rockets_data)
    /\ listing' = ListingPages(rows')
    /\ planner_calls' =
          planner_calls
          \o [k \in 1..Len(listing') |->
                 [current |-> listing'[k].current_page,
                  total |-> listing'[k].total_pages,
                  delta |-> DEFAULT_DELTA]]
    /\ LET calls == [k \in 1..Len(listing') |->
                        Rendered("rockets.html", << listing'[k].filename >>)]
       IN  /\ written' = written \o WrittenOf(calls, broken)
           /\ render_errors' = render_errors \o FailedOf(calls, broken)
    /\ pc' = "details"
    /\ UNCHANGED <<files, disk_rockets, assets_copied, pages_data, rockets_data,
                   errors, validation, exit_status, totals, broken>>
    /\ UNCHANGED plan_vars

\* generate_rocket_and_variant_details
GenerateDetails ==
    /\ pc = "details"
    /\ LET calls == DetailPages(rockets_data)
       IN  /\ written' = written \o WrittenOf(calls, broken)
           /\ render_errors' = render_errors \o FailedOf(calls, broken)
    /\ pc' = "finish"
    /\ UNCHANGED <<files, disk_rockets, assets_copied, pages_data, rockets_data,
                   errors, validation, exit_status, totals, broken, rows, listing,
                   planner_calls>>
    /\ UNCHANGED plan_vars

\* The end of the main block: the process ends with status 0.
Finish ==
    /\ pc = "finish"
    /\ pc' = "done"
    /\ exit_status' = << 0 >>
    /\ UNCHANGED <<files, disk_rockets, assets_copied, pages_data, rockets_data,
                   errors, validation, totals, broken, written, render_errors,
                   rows, listing, planner_calls>>
    /\ UNCHANGED plan_vars

BuildNext ==
    \/ CleanupAndSetup
    \/ LoadPages
    \/ LoadRockets
    \/ Validate
    \/ SortAndCount
    \/ GenerateIndex
    \/ GenerateAbout
    \/ GenerateRocketsListing
    \/ GenerateDetails
    \/ Finish

SpecBuild == BuildInit /\ [][BuildNext]_vars

\* ================================================================= claims

\* The page numbers of a pagination sequence are strictly increasing.
StrictlyIncreasing(s) ==
    \A i, j \in 1..Len(s) :
        (i < j /\ s[i].kind = "page" /\ s[j].kind = "page") => s[i].n < s[j].n

\* No two ellipsis markers are adjacent.
NoAdjacentEllipses(s) ==
    \A i \in 1..(Len(s) - 1) : ~(s[i] = Ellipsis /\ s[i + 1] = Ellipsis)

\* Every ellipsis marker stands between two page numbers with at least one
\* page between them.
NoRedundantEllipsis(s) ==
    \A i \in 1..Len(s) :
        s[i] = Ellipsis =>
            /\ 1 < i /\ i < Len(s)
            /\ s[i - 1].kind = "page" /\ s[i + 1].kind = "page"
            /\ s[i + 1].n > s[i - 1].n + 1

\* The page numbers a..b as pagination markers, written out.
Numbers(a, b) == [i \in 1..(b - a + 1) |-> [kind |-> "page", n |-> a + i - 1]]

\* C1: for every total >= 2, 1 <= current <= total and delta >= 0, the
\* sequence build_site.get_pagination_range returns has page 1 as its first
\* element and page total as its last.
C1_FirstAndLast ==
    (plan_pc # "idle" /\ total >= 2) =>
        /\ Len(pages) >= 2
        /\ pages[1] = Num(1)
        /\ pages[Len(pages)] = Num(total)

\* C1's case: plan(1, 42, delta=3) was computed and is [1, 2, 3, 4, ..., 42].
C1_Witness ==
    /\ plan_pc # "idle" /\ current = 1 /\ total = 42 /\ delta = 3
    /\ pages = Numbers(1, 4) \o <<Ellipsis, Num(42)>>

\* C2 as stated: get_pagination_range(5, 10, delta=3) returns the full
\* sequence 1..10 with no ellipsis marker.
C2_FullSequenceNoEllipsis ==
    (plan_pc # "idle" /\ current = 5 /\ total = 10 /\ delta = 3) =>
        pages = Numbers(1, 10)

\* C2 as amended: get_pagination_range(5, 10, delta=3) returns
\* [1, 2, 3, 4, 5, 6, 7, 8, "...", 10], and in general a gap of a single
\* page between the window and the first or the last page is rendered as an
\* ellipsis: when current + delta = total - 2 the sequence ends
\* total - 2, "...", total, and when current - delta = 3 it starts 1, "...", 3.
C2_SinglePageGapIsEllipsis ==
    plan_pc # "idle" =>
        /\ (current = 5 /\ total = 10 /\ delta = 3) =>
               pages = Numbers(1, 8) \o <<Ellipsis, Num(10)>>
        /\ (current + delta = total - 2) =>
               SubSeq(pages, Len(pages) - 2, Len(pages))
                   = <<Num(total - 2), Ellipsis, Num(total)>>
        /\ (current - delta = 3) =>
               SubSeq(pages, 1, 3) = <<Num(1), Ellipsis, Num(3)>>

\* C2's case: plan(5, 10, delta=3) was computed and has ten elements.
C2_Witness ==
    /\ plan_pc = "build_site" /\ current = 5 /\ total = 10 /\ delta = 3
    /\ Len(pages) = 10

\* C3: for every total >= 1, 1 <= current <= total and delta >= 0, the page
\* numbers of the returned sequence are in increasing order with none
\* repeated, no two ellipsis markers are adjacent, and no ellipsis marker
\* sits between two consecutive page numbers.
C3_OrderedNoRedundantEllipsis ==
    plan_pc # "idle" =>
        /\ StrictlyIncreasing(pages)
        /\ NoAdjacentEllipses(pages)
        /\ NoRedundantEllipsis(pages)

\* C3's case: plan(25, 50, delta=2) was computed, with an ellipsis on either
\* side of the window.
C3_Witness ==
    /\ plan_pc # "idle" /\ current = 25 /\ total = 50 /\ delta = 2
    /\ pages = <<Num(1), Ellipsis>> \o Numbers(23, 27) \o <<Ellipsis, Num(50)>>

\* C4: for every total >= 2, 1 <= current <= total and delta >= 0 (delta = 0
\* included), the returned sequence contains the page number current.
C4_ContainsCurrent ==
    (plan_pc # "idle" /\ total >= 2) =>
        \E i \in 1..Len(pages) : pages[i] = Num(current)

\* C4's case: delta = 0 and current is neither anchor, so that the window
\* is current alone.
C4_Witness ==
    /\ plan_pc # "idle" /\ current = 6 /\ total = 12 /\ delta = 0
    /\ pages = <<Num(1), Ellipsis, Num(6), Ellipsis, Num(12)>>

\* C10: for every total >= 1, 1 <= current <= total and delta >= 0,
\* utils.get_pagination_range returns the same sequence of page numbers and
\* ellipsis markers as build_site.get_pagination_range.
C10_PlannersAgree == plan_pc = "both" => range_pages = pages

\* C10's case: both planners ran on a call whose window touches the page
\* before the last one, and the result has a leading ellipsis only.
C10_Witness ==
    /\ plan_pc = "both" /\ current = 16 /\ total = 20 /\ delta = 3
    /\ range_pages = <<Num(1), Ellipsis>> \o Numbers(13, 20)

\* ----------------------------------------------------- claims on the build

\* The directory levels below OUTPUT_DIR of the files of a template: the
\* rocket pages are rocket/<slug>.html, the variant pages
\* rocket/<slug>/<variant-slug>.html, every other page lies in OUTPUT_DIR.
LevelOf(template) ==
    CASE template = "rocket.html" -> 1
      [] template = "variant.html" -> 2
      [] OTHER -> 0

\* The path a relative link designates from a directory.
RECURSIVE Resolve(_, _)
Resolve(dir, link) ==
    IF link = << >> THEN dir
    ELSE IF link[1].name = ".."
         THEN Resolve(SubSeq(dir, 1, Len(dir) - 1), Tail(link))
         ELSE Resolve(Append(dir, link[1]), Tail(link))

\* The directory of a file.
DirOf(path) == SubSeq(path, 1, Len(path) - 1)

\* C5: for every file render_template wrote d directory levels below
\* OUTPUT_DIR, base_url is exactly d copies of "../" (empty for d = 0),
\* following it from the file's directory arrives at OUTPUT_DIR, and
\* home_link designates the index.html of OUTPUT_DIR.
C5_BaseUrlReachesRoot ==
    \A k \in 1..Len(written) :
        LET w == written[k]
            d == LevelOf(w.template)
        IN  /\ Len(w.path) = Len(OUTPUT_DIR) + d + 1
            /\ SubSeq(w.path, 1, Len(OUTPUT_DIR)) = OUTPUT_DIR
            /\ Len(w.base_url) = d
            /\ \A i \in 1..Len(w.base_url) : w.base_url[i] = Comp("..", 0, "")
            /\ Resolve(DirOf(w.path), w.base_url) = OUTPUT_DIR
            /\ Resolve(DirOf(w.path), w.home_link)
                   = OUTPUT_DIR \o << Comp("index", 0, "html") >>

\* C5's case: a finished build wrote files at the three depths.
C5_Witness ==
    /\ pc = "done" /\ broken = {}
    /\ \E k \in 1..Len(written) :
          written[k].template = "index.html" /\ written[k].base_url = << >>
    /\ \E k \in 1..Len(written) :
          written[k].template = "rocket.html" /\ Len(written[k].base_url) = 1
    /\ \E k \in 1..Len(written) :
          written[k].template = "variant.html" /\ Len(written[k].base_url) = 2

\* C6: when an input file the build reads does not exist, the run is
\* aborted: no page is generated once the missing file was detected, and
\* the build does not complete.
C6_MissingFileAborts ==
    errors # << >> =>
        (written = << >> /\ render_errors = << >> /\ pc # "done")

\* C7: if schema validation of the catalog fails, the build ends with a
\* non-zero exit status and no page is rendered: no generator, hence no
\* get_pagination_range and no compute_base_url, runs after the failure.
C7_ValidationFailureIsFatal ==
    validation = "failed" =>
        /\ pc = "exited"
        /\ exit_status # << >> /\ exit_status[1] # 0
        /\ written = << >> /\ render_errors = << >>
        /\ listing = << >>
        /\ planner_calls = << >>

\* C7's case: validation failed on a catalog that holds rockets, all input
\* files present, and the process has exited.
C7_Witness ==
    /\ validation = "failed" /\ pc = "exited"
    /\ errors = << >> /\ broken = {}
    /\ Len(rockets_data) = MaxRockets

\* The render_template calls for listing pages, written or failed (the
\* template fails for all of them or for none).
ListingRendered ==
    SelectSeq(written \o render_errors, LAMBDA w : w.template = "rockets.html")

\* C8: generate_rockets_listing calls get_pagination_range exactly once per
\* listing page it renders, in ascending page order, each call with
\* 1 <= page_num <= total_pages and total_pages >= 1; when the flattened row
\* list is empty, total_pages is 0 and no listing page and no planner call
\* is produced.
C8_OnePlannerCallPerPage ==
    pc \in {"details", "finish", "done"} =>
        /\ Len(planner_calls) = Len(ListingRendered)
        /\ Len(listing) = Len(ListingRendered)
        /\ \A k \in 1..Len(planner_calls) :
              /\ planner_calls[k].current = k
              /\ listing[k].current_page = k
              /\ 1 <= planner_calls[k].current
              /\ planner_calls[k].current <= planner_calls[k].total
              /\ planner_calls[k].total >= 1
              /\ planner_calls[k].total = Len(ListingRendered)
              /\ listing[k].total_pages = planner_calls[k].total
              /\ ListingRendered[k].path[Len(OUTPUT_DIR) + 1].id
                    = (IF k = 1 THEN 0 ELSE k)
        /\ (rows = << >>) =>
              (planner_calls = << >> /\ ListingRendered = << >> /\ listing = << >>)
        /\ (rows # << >>) => planner_calls # << >>

\* C8's case: a listing of four pages was generated and written.
C8_Witness ==
    /\ pc = "details"
    /\ Len(planner_calls) = 4
    /\ Len(SelectSeq(written, LAMBDA w : w.template = "rockets.html")) = 4
    /\ planner_calls[4] = [current |-> 4, total |-> 4, delta |-> 3]

\* The rows of the listing pages k.., concatenated in page order.
RECURSIVE ConcatPages(_, _)
ConcatPages(ls, k) ==
    IF k > Len(ls) THEN << >>
    ELSE ls[k].rockets_page \o ConcatPages(ls, k + 1)

\* The rockets with a slug, each followed by its variants with a slug, by
\* position in the catalog.
ExpectedRows(rockets) ==
    {<<"rocket", rockets[i].slug, 0>> : i \in {i \in 1..Len(rockets) : rockets[i].slug # 0}}
    \cup UNION { {<<"variant", rockets[i].variants[j].slug, rockets[i].slug>> :
                     j \in {j \in 1..Len(rockets[i].variants) :
                               rockets[i].variants[j].slug # 0}} :
                 i \in {i \in 1..Len(rockets) : rockets[i].slug # 0} }

\* C9: the listing pages partition the flattened row list: the page_rows of
\* pages 1..total_pages concatenated give back the row list, no page is
\* empty, every page holds at most ITEMS_PER_PAGE rows and only the last
\* may hold fewer.
C9_PagesPartitionRows ==
    pc \in {"details", "finish", "done"} =>
        /\ ConcatPages(listing, 1) = rows
        /\ {<<rows[i].type, rows[i].data, rows[i].root>> : i \in 1..Len(rows)}
              = ExpectedRows(rockets_data)
        /\ \A k \in 1..Len(listing) :
              /\ listing[k].rockets_page # << >>
              /\ Len(listing[k].rockets_page) <= ITEMS_PER_PAGE
              /\ k < Len(listing) =>
                    Len(listing[k].rockets_page) = ITEMS_PER_PAGE

\* C9's case: a listing of three pages whose last page holds a single row.
C9_Witness ==
    /\ pc = "details"
    /\ Len(listing) = 3
    /\ Len(listing[3].rockets_page) = 1
    /\ Len(rows) = 2 * ITEMS_PER_PAGE + 1

====
